---- MODULE Spec2Model ----
(***************************************************************************)
(* GigNova job lifecycle: the orchestrator (orchestrator_mcp.py), the      *)
(* submission route (api/routes_mcp.py), the payment agent                 *)
(* (agents/payment.py) and the local ledger (blockchain/local_manager.py). *)
(*                                                                         *)
(* The orchestrator's coroutines run on one asyncio event loop: control    *)
(* can change hands only at an await.  Each action below is the code       *)
(* between two awaits of one call.                                         *)
(***************************************************************************)
EXTENDS Integers, Sequences, FiniteSets, TLC

\* ---------------------------------------------------------------- bounds
MaxJobs == 1        \* jobs ever posted
MaxSubmits == 2     \* submit_deliverable calls ever started (they may overlap)
MaxPayCalls == 1    \* direct PaymentAgent.release_payment calls ever made
MaxCreateCalls == 1 \* direct PaymentAgent.create_escrow calls ever made
MaxRate == 7        \* largest budget bound or asking rate given to negotiate
MaxRounds == 3      \* largest AgentConfig.negotiation_rounds tried
MaxEvents == 6      \* most qa_validation_completed events an evolution run is given
MaxOutcomes == 5    \* most recent outcomes evolve_threshold is given

JobIds == 1..MaxJobs
Addrs == 1..(MaxJobs + MaxCreateCalls)
Calls == 1..MaxSubmits
None == 0

\* ------------------------------------------------------------- JobStatus
JobStatus == {"posted", "matched", "negotiating", "active", "in_qa",
              "completed", "disputed", "cancelled"}

\* Position of a status in the lifecycle order of the JobStatus enum.
Rank(s) ==
    CASE s = "posted" -> 1
      [] s = "matched" -> 2
      [] s = "negotiating" -> 3
      [] s = "active" -> 4
      [] s = "in_qa" -> 5
      [] s = "completed" -> 6
      [] OTHER -> 7

VARIABLES
    jobs,               \* orchestrator.jobs: job id -> job record ("absent" = no key)
    visited,            \* history: every status a job has had
    nextJob,            \* next fresh job id (uuid4)
    escrows,            \* ledger escrows.json: address -> "absent" | "active" | "released"
    releaseTx,          \* ledger transactions.json: release_payment entries per address
    nextAddr,           \* next fresh contract address
    ledgerReleaseCalls, \* history: blockchain_manager.release_payment calls per job id
    call,               \* the submit_deliverable calls, in the order they started
    nSubmits,           \* submit_deliverable calls started so far
    postResult,         \* what process_job_posting returned for each job
    payResult,          \* what the last direct PaymentAgent.release_payment returned
    nPayCalls,          \* direct PaymentAgent.release_payment calls so far
    createCalls,        \* history: the direct PaymentAgent.create_escrow calls and their results
    neg,                \* the NegotiationAgent.negotiate call: its locals and its return value
    config,             \* AgentConfig shared by the agents: the two thresholds, in hundredths
    qaRun,              \* the QAAgent.validate_deliverable call: its position, locals and outcome
    run,                \* the evolve_agents runs, one slot per trigger source
    matchEvo,           \* the MatchingAgent.evolve_threshold call: its position and what it reported
    research,           \* research.py: its confidence_threshold and the evolution thread's position
    seen,               \* research.py: the threshold find_matches last read on the request thread
    request,            \* the last POST /jobs body and what became of it
    cancel,             \* the last cancelJob call and what became of it
    matchRun,           \* the MatchingAgent.find_matches call: its position, locals and result
    posting,            \* the last process_job_posting run on the agents: what its stages answered
    ledgerResult,       \* the last direct call on the local ledger and what it returned
    archive,            \* archive LocalBlockchain: contracts, transactions, last return value
    context,            \* AutoTradeX AgentContext: max_messages, messages, and what was added
    evolveArgs          \* the last evolve_threshold call: its outcomes and the threshold it found

\* The job life cycle and the ledger it pays through.
lifecycleVars == <<jobs, visited, nextJob, escrows, releaseTx, nextAddr,
                   ledgerReleaseCalls, call, nSubmits, postResult, payResult, nPayCalls>>

\* "agreed_rate": None in the result of negotiate (0 is a rate).
NoRate == -1

\* negotiate has not been called: it has no locals yet.
IdleNeg == [pc |-> "idle"]

\* AgentConfig(): confidence_threshold 0.85, qa_similarity_threshold 0.7.
DefaultConfig == [confidence_threshold |-> 85, qa_similarity_threshold |-> 70]

\* validate_deliverable has not been called: it has no locals yet.
IdleQA == [pc |-> "idle"]

\* Who starts evolve_agents: the weekly scheduler thread or the admin route.
Runs == {"scheduled", "manual"}

\* No evolve_agents run has been started from this source.
IdleRun == [pc |-> "idle"]

\* evolve_threshold has not been called.
IdleMatchEvo == [pc |-> "idle"]

\* research.py at start-up: AgentConfig() default threshold, no evolution running.
IdleResearch ==
    [confidence_threshold |-> DefaultConfig.confidence_threshold, pc |-> "idle"]

\* find_matches has not read the threshold yet.
NothingSeen == [during |-> FALSE]

\* No job has been submitted.
NoRequest == [outcome |-> "none", accepted |-> 0]

\* What the agents' own operations, called on their own, record.
stageVars == <<createCalls, neg, config, qaRun, run, matchEvo, research, seen, request>>

\* No cancelJob call has been made.
NoCancel == [outcome |-> "none"]

\* What the operations outside the job pipeline record.
\* find_matches has not been called.
IdleMatch == [pc |-> "idle"]

\* process_job_posting has not been run on the agents.
NoPosting == [job |-> None]

\* The ledger has not been called directly.
NoLedgerCall == [op |-> "none"]

\* LocalBlockchain() on an empty storage directory: no contracts, no
\* transactions.
EmptyArchive == [contracts |-> <<>>, transactions |-> <<>>, result |-> "none"]

\* No AgentContext has been constructed.
NoContext == [built |-> FALSE]

\* evolve_threshold has not been called with recorded arguments.
NoEvolveArgs == [outcomes |-> None]

extVars == <<cancel, matchRun, posting, ledgerResult, archive, context, evolveArgs>>

vars == <<lifecycleVars, stageVars, extVars>>

\* Nothing outside the pipeline has been called yet.
ExtInit ==
    /\ cancel = NoCancel
    /\ matchRun = IdleMatch
    /\ posting = NoPosting
    /\ ledgerResult = NoLedgerCall
    /\ archive = EmptyArchive
    /\ context = NoContext
    /\ evolveArgs = NoEvolveArgs

\* Nothing has been called on the agents yet.
StageInit ==
    /\ createCalls = <<>>
    /\ neg = IdleNeg
    /\ config = DefaultConfig
    /\ qaRun = IdleQA
    /\ run = [r \in Runs |-> IdleRun]
    /\ matchEvo = IdleMatchEvo
    /\ research = IdleResearch
    /\ seen = NothingSeen
    /\ request = NoRequest

AbsentJob ==
    [status |-> "absent", freelancer_id |-> None, contract_address |-> None,
     escrow_id |-> None, qa_result |-> "none", payment_tx |-> "unset"]

IdleCall ==
    [pc |-> "idle", job |-> None, entry |-> "none",
     qa |-> "none", requested |-> FALSE, pay |-> "none", result |-> "none"]

NoPayResult ==
    [job |-> None, qa_passed |-> FALSE, success |-> FALSE,
     transaction_hash |-> "none", message |-> "none"]

Init ==
    /\ jobs = [j \in JobIds |-> AbsentJob]
    /\ visited = [j \in JobIds |-> {}]
    /\ nextJob = 1
    /\ escrows = [a \in Addrs |-> "absent"]
    /\ releaseTx = [a \in Addrs |-> 0]
    /\ nextAddr = 1
    /\ ledgerReleaseCalls = [j \in JobIds |-> 0]
    /\ call = [p \in Calls |-> IdleCall]
    /\ nSubmits = 0
    /\ postResult = [j \in JobIds |-> [status |-> "none", escrow |-> "none"]]
    /\ payResult = NoPayResult
    /\ nPayCalls = 0
    /\ StageInit
    /\ ExtInit

\* ------------------------------------------------------------ the ledger
\* LocalBlockchainManager.create_escrow: a fresh address gets an "active"
\* escrow; any exception is caught and reported as success = False.
LedgerCreateEscrow(esc, addr, io) ==
    IF io = "ok"
    THEN [escrows |-> [esc EXCEPT ![addr] = "active"],
          success |-> TRUE, contract_address |-> addr]
    ELSE [escrows |-> esc, success |-> FALSE, contract_address |-> None]

\* release_payment without the 'escrow["status"] != "active"' check.
LedgerReleasePayment_NoStatusCheck(esc, tx, escrow_id, io) ==
    IF io # "ok" \/ escrow_id \notin Addrs
    THEN [escrows |-> esc, releaseTx |-> tx, success |-> FALSE]
    ELSE IF esc[escrow_id] = "absent"
    THEN [escrows |-> esc, releaseTx |-> tx, success |-> FALSE]
    ELSE [escrows |-> [esc EXCEPT ![escrow_id] = "released"],
          releaseTx |-> [tx EXCEPT ![escrow_id] = @ + 1],
          success |-> TRUE]

\* LocalBlockchainManager.release_payment: only an existing escrow whose
\* status is "active" is released; everything else returns success = False.
LedgerReleasePayment(esc, tx, escrow_id, io) ==
    IF io # "ok"
    THEN [escrows |-> esc, releaseTx |-> tx, success |-> FALSE]
    ELSE IF escrow_id \notin Addrs \/ esc[escrow_id] = "absent"
    THEN [escrows |-> esc, releaseTx |-> tx, success |-> FALSE]
    ELSE IF esc[escrow_id] # "active"
    THEN [escrows |-> esc, releaseTx |-> tx, success |-> FALSE]
    ELSE [escrows |-> [esc EXCEPT ![escrow_id] = "released"],
          releaseTx |-> [tx EXCEPT ![escrow_id] = @ + 1],
          success |-> TRUE]

\* ----------------------------------------------------- the payment agent
\* PaymentAgent.create_escrow: forwards to the ledger; a raising ledger is
\* caught and turned into success = False.
PaymentCreateEscrow(esc, addr, io) ==
    IF io = "raise"
    THEN [escrows |-> esc, success |-> FALSE, contract_address |-> None]
    ELSE LedgerCreateEscrow(esc, addr, io)

\* PaymentAgent.release_payment without its "if not qa_passed" early return.
PaymentReleasePayment_NoQAGate(esc, tx, lcalls, job_id, contract_address, escrow_id, qa_passed, io) ==
    LET id == IF contract_address # None THEN contract_address ELSE escrow_id
        r == LedgerReleasePayment(esc, tx, id, io)
    IN [escrows |-> r.escrows, releaseTx |-> r.releaseTx,
        ledgerCalls |-> [lcalls EXCEPT ![job_id] = @ + 1],
        success |-> r.success,
        transaction_hash |-> IF r.success THEN "tx" ELSE "none",
        message |-> IF r.success THEN "released" ELSE "failed"]

\* PaymentAgent.release_payment.
PaymentReleasePayment(esc, tx, lcalls, job_id, contract_address, escrow_id, qa_passed, io) ==
    IF ~qa_passed
    THEN [escrows |-> esc, releaseTx |-> tx, ledgerCalls |-> lcalls,
          success |-> FALSE, transaction_hash |-> "none", message |-> "held"]
    ELSE LET id == IF contract_address # None THEN contract_address ELSE escrow_id
             r == LedgerReleasePayment(esc, tx, id, io)
         IN [escrows |-> r.escrows, releaseTx |-> r.releaseTx,
             ledgerCalls |-> [lcalls EXCEPT ![job_id] = @ + 1],
             success |-> r.success,
             transaction_hash |-> IF r.success THEN "tx" ELSE "none",
             message |-> IF r.success THEN "released" ELSE "failed"]

\* ---------------------------------------------------- process_job_posting
\* process_job_posting without its check of contract_result["success"].
PostingOutcome_IgnoresEscrow(hasMatch, negSuccess, escrowSuccess) ==
    IF ~hasMatch THEN "no_matches"
    ELSE IF ~negSuccess THEN "negotiation_failed"
    ELSE "active"

\* The status process_job_posting returns, from the outcome of each stage.
PostingOutcome(hasMatch, negSuccess, escrowSuccess) ==
    IF ~hasMatch THEN "no_matches"
    ELSE IF ~negSuccess THEN "negotiation_failed"
    ELSE IF ~escrowSuccess THEN "contract_failed"
    ELSE "active"

\* create_escrow called as soon as there is a match, before the negotiation
\* result is looked at.
ReachesEscrow_BeforeNegotiationCheck(hasMatch, negSuccess) == hasMatch

\* process_job_posting gets to create_escrow only past its two early
\* returns: 'no_matches' and 'negotiation_failed'.
ReachesEscrow(hasMatch, negSuccess) == hasMatch /\ negSuccess

\* GigNovaOrchestrator.process_job_posting, given what its stages answer:
\* what it does to the jobs and the ledger.
PostingSteps(hasMatch, negSuccess, io) ==
    /\ nextJob <= MaxJobs
    /\ nextAddr \in Addrs
    /\ LET j == nextJob
           reachesEscrow == ReachesEscrow(hasMatch, negSuccess)
           cr == IF reachesEscrow
                 THEN PaymentCreateEscrow(escrows, nextAddr, io)
                 ELSE [escrows |-> escrows, success |-> FALSE,
                       contract_address |-> None]
           outcome == PostingOutcome(hasMatch, negSuccess, cr.success)
       IN /\ nextJob' = j + 1
          /\ escrows' = cr.escrows
          /\ nextAddr' = IF cr.success THEN nextAddr + 1 ELSE nextAddr
          /\ jobs' = [jobs EXCEPT ![j] =
                        IF outcome = "active"
                        THEN [AbsentJob EXCEPT !.status = "active",
                                               !.freelancer_id = 1,
                                               !.contract_address = cr.contract_address]
                        ELSE [AbsentJob EXCEPT !.status = "posted"]]
          /\ visited' = [visited EXCEPT ![j] =
                           IF outcome = "active" THEN {"posted", "active"}
                           ELSE {"posted"}]
          /\ postResult' = [postResult EXCEPT ![j] =
                              [status |-> outcome,
                               escrow |-> IF ~reachesEscrow THEN "none"
                                          ELSE IF cr.success THEN "ok" ELSE "failed"]]
    /\ UNCHANGED <<releaseTx, ledgerReleaseCalls, call, nSubmits, payResult, nPayCalls>>

\* GigNovaOrchestrator.process_job_posting.
ProcessJobPosting(hasMatch, negSuccess, io) ==
    /\ PostingSteps(hasMatch, negSuccess, io)
    /\ UNCHANGED <<stageVars, extVars>>

\* ------------------------------------------------------ submit_deliverable
\* routes_mcp.submit_deliverable up to its first await: 404, 403 or 400
\* unless the job exists and is ACTIVE.
RouteSubmit(p, j) ==
    /\ p = nSubmits + 1
    /\ nSubmits' = nSubmits + 1
    /\ call' = [call EXCEPT ![p] =
                  IF jobs[j].status = "active"
                  THEN [IdleCall EXCEPT !.pc = "validating", !.job = j, !.entry = jobs[j].status]
                  ELSE [IdleCall EXCEPT !.pc = "done", !.job = j, !.entry = jobs[j].status,
                                        !.result = "rejected"]]
    /\ UNCHANGED <<jobs, visited, nextJob, escrows, releaseTx, nextAddr,
                   ledgerReleaseCalls, postResult, payResult, nPayCalls>>
    /\ UNCHANGED <<stageVars, extVars>>

\* GigNovaOrchestrator.submit_deliverable called directly, up to its first
\* await: only an unknown job id is refused (ValueError -> error result).
DirectSubmit(p, j) ==
    /\ p = nSubmits + 1
    /\ nSubmits' = nSubmits + 1
    /\ call' = [call EXCEPT ![p] =
                  IF jobs[j].status # "absent"
                  THEN [IdleCall EXCEPT !.pc = "validating", !.job = j, !.entry = jobs[j].status]
                  ELSE [IdleCall EXCEPT !.pc = "done", !.job = j, !.entry = "absent",
                                        !.result = "error"]]
    /\ UNCHANGED <<jobs, visited, nextJob, escrows, releaseTx, nextAddr,
                   ledgerReleaseCalls, postResult, payResult, nPayCalls>>
    /\ UNCHANGED <<stageVars, extVars>>

\* The status submit_deliverable writes after validation.
StatusAfterQA(passed) == IF ~passed THEN "in_qa" ELSE "completed"

\* submit_deliverable releasing the payment whatever the validation said.
ReleaseAfterQA_Always(passed) == TRUE

\* Whether submit_deliverable goes on to payment_agent.release_payment.
ReleaseAfterQA(passed) == passed

\* submit_deliverable from the storage and validation awaits to the job
\* update; qa = "raise" is a storage or validation call that raised.
ValidateAndUpdate(p, qa) ==
    /\ call[p].pc = "validating"
    /\ LET j == call[p].job
           passed == (qa = "passed")
       IN IF qa = "raise"
          THEN /\ call' = [call EXCEPT ![p].pc = "done", ![p].result = "error"]
               /\ UNCHANGED <<jobs, visited>>
          ELSE /\ jobs' = [jobs EXCEPT ![j].status = StatusAfterQA(passed),
                                       ![j].qa_result = qa]
               /\ visited' = [visited EXCEPT ![j] = @ \cup {StatusAfterQA(passed)}]
               /\ call' = [call EXCEPT
                             ![p].qa = qa,
                             ![p].pc = IF ReleaseAfterQA(passed) THEN "releasing" ELSE "done",
                             ![p].result = IF ReleaseAfterQA(passed) THEN "none" ELSE "returned"]
    /\ UNCHANGED <<nextJob, escrows, releaseTx, nextAddr, ledgerReleaseCalls,
                   nSubmits, postResult, payResult, nPayCalls>>
    /\ UNCHANGED <<stageVars, extVars>>

\* submit_deliverable inside payment_agent.release_payment(job_id,
\* job.get("contract_address"), job.get("escrow_id"), True).
ReleaseStep(p, io) ==
    /\ call[p].pc = "releasing"
    /\ LET j == call[p].job
           r == PaymentReleasePayment(escrows, releaseTx, ledgerReleaseCalls, j,
                                      jobs[j].contract_address, jobs[j].escrow_id,
                                      TRUE, io)
       IN /\ escrows' = r.escrows
          /\ releaseTx' = r.releaseTx
          /\ ledgerReleaseCalls' = r.ledgerCalls
          /\ call' = [call EXCEPT ![p].pc = "paid",
                                  ![p].requested = (r.ledgerCalls # ledgerReleaseCalls),
                                  ![p].pay = IF r.success THEN "tx" ELSE "none"]
    /\ UNCHANGED <<jobs, visited, nextJob, nextAddr, nSubmits, postResult,
                   payResult, nPayCalls>>
    /\ UNCHANGED <<stageVars, extVars>>

\* submit_deliverable after the payment returned: records payment_tx and
\* returns its result.
FinishSubmit(p) ==
    /\ call[p].pc = "paid"
    /\ jobs' = [jobs EXCEPT ![call[p].job].payment_tx = call[p].pay]
    /\ call' = [call EXCEPT ![p].pc = "done", ![p].result = "returned"]
    /\ UNCHANGED <<visited, nextJob, escrows, releaseTx, nextAddr,
                   ledgerReleaseCalls, nSubmits, postResult, payResult, nPayCalls>>
    /\ UNCHANGED <<stageVars, extVars>>

\* PaymentAgent.release_payment called on its own for a posted job.
ReleasePaymentCall(j, qa_passed, io) ==
    /\ jobs[j].status # "absent"
    /\ nPayCalls < MaxPayCalls
    /\ nPayCalls' = nPayCalls + 1
    /\ LET r == PaymentReleasePayment(escrows, releaseTx, ledgerReleaseCalls, j,
                                      jobs[j].contract_address, jobs[j].escrow_id,
                                      qa_passed, io)
       IN /\ escrows' = r.escrows
          /\ releaseTx' = r.releaseTx
          /\ ledgerReleaseCalls' = r.ledgerCalls
          /\ payResult' = [job |-> j, qa_passed |-> qa_passed, success |-> r.success,
                           transaction_hash |-> r.transaction_hash,
                           message |-> r.message]
    /\ UNCHANGED <<jobs, visited, nextJob, nextAddr, call, nSubmits, postResult>>
    /\ UNCHANGED <<stageVars, extVars>>

Next ==
    \/ \E hasMatch \in BOOLEAN, negSuccess \in BOOLEAN, io \in {"ok", "error", "raise"} :
          ProcessJobPosting(hasMatch, negSuccess, io)
    \/ \E p \in Calls, j \in JobIds : RouteSubmit(p, j)
    \/ \E p \in Calls, j \in JobIds : DirectSubmit(p, j)
    \/ \E p \in Calls, qa \in {"passed", "failed", "raise"} : ValidateAndUpdate(p, qa)
    \/ \E p \in Calls, io \in {"ok", "error"} : ReleaseStep(p, io)
    \/ \E p \in Calls : FinishSubmit(p)
    \/ \E j \in JobIds, qa_passed \in BOOLEAN, io \in {"ok", "error"} :
          ReleasePaymentCall(j, qa_passed, io)

Spec == Init /\ [][Next]_vars

\* ================================================================ claims

InFlight(j) == \E p \in Calls : call[p].job = j /\ call[p].pc \notin {"idle", "done"}

\* C1: no release request is issued to the ledger for a job whose escrow is
\* already Released: after the first successful release every further
\* release_payment invocation skips the ledger call.
C1_ReleaseRequestedAtMostOnce ==
    [][\A j \in JobIds :
          (/\ jobs[j].contract_address \in Addrs
           /\ escrows[jobs[j].contract_address] = "released")
              => ledgerReleaseCalls'[j] = ledgerReleaseCalls[j]]_vars

\* C2: once no submission is in flight, a job that was Active is Completed
\* only if the ledger released the escrow recorded on the job.
C2_CompletedOnlyIfReleased ==
    \A j \in JobIds :
        (jobs[j].status = "completed" /\ "active" \in visited[j] /\ ~InFlight(j))
            => /\ jobs[j].contract_address \in Addrs
               /\ escrows[jobs[j].contract_address] = "released"

\* C3: two submit_deliverable calls that both entered on the same Active job
\* never both run validation and both request the escrow release.
C3_SubmitsSerialized ==
    \A p, q \in Calls :
        (p # q /\ call[p].job = call[q].job
              /\ call[p].entry = "active" /\ call[q].entry = "active")
            => ~(/\ call[p].qa # "none" /\ call[q].qa # "none"
                 /\ call[p].requested /\ call[q].requested)

\* C4: no step moves a job's status backward in the order
\* Posted < Matched < Negotiating < Active < InQA < Completed.
C4_NeverBackward ==
    [][\A j \in JobIds :
          "active" \in visited[j]
              => Rank(jobs'[j].status) >= Rank(jobs[j].status)]_vars

\* C5: a job that has been Active has been Matched and Negotiating, and a
\* job that has been Completed has been InQA.
C5_NoSkippedPredecessor ==
    \A j \in JobIds :
        /\ "active" \in visited[j] => {"matched", "negotiating"} \subseteq visited[j]
        /\ "completed" \in visited[j] => "in_qa" \in visited[j]

\* C6: a submission that finds the job Posted or Completed is rejected: it
\* runs no validation and requests no release.
C6_OnlyActiveAccepted ==
    \A p \in Calls :
        call[p].entry \in {"posted", "completed"}
            => /\ call[p].pc = "done"
               /\ call[p].result = "rejected"
               /\ call[p].qa = "none"
               /\ ~call[p].requested

\* C7: the step in which a submission's validation fails leaves the job
\* InQA with the failed result attached and ends the call without touching
\* the ledger; a call whose validation failed never requested a release.
C7_FailedValidationHolds ==
    /\ [](\A p \in Calls : call[p].qa = "failed" => ~call[p].requested /\ call[p].pay = "none")
    /\ [][\A p \in Calls :
            (call[p].pc = "validating" /\ call'[p].qa = "failed")
                => /\ jobs'[call[p].job].status = "in_qa"
                   /\ jobs'[call[p].job].qa_result = "failed"
                   /\ call'[p].pc = "done"
                   /\ call'[p].result = "returned"
                   /\ escrows' = escrows
                   /\ releaseTx' = releaseTx
                   /\ ledgerReleaseCalls' = ledgerReleaseCalls]_vars

C7_Witness ==
    \E p \in Calls :
        /\ call[p].pc = "done"
        /\ call[p].qa = "failed"
        /\ jobs[call[p].job].status = "in_qa"
        /\ jobs[call[p].job].qa_result = "failed"
        /\ jobs[call[p].job].contract_address \in Addrs
        /\ escrows[jobs[call[p].job].contract_address] = "active"

\* C8: a submission for a job that is InQA after a failed validation is
\* accepted, never rejected.
C8_ResubmissionAccepted ==
    \A p \in Calls : call[p].entry = "in_qa" => call[p].result # "rejected"

\* C9: release_payment with qa_passed = false returns the held result
\* (success false, no transaction hash) and changes nothing in the ledger.
C9_HeldIsNoOp ==
    [][(nPayCalls' # nPayCalls /\ ~payResult'.qa_passed)
          => /\ payResult'.success = FALSE
             /\ payResult'.transaction_hash = "none"
             /\ payResult'.message = "held"
             /\ escrows' = escrows
             /\ releaseTx' = releaseTx
             /\ ledgerReleaseCalls' = ledgerReleaseCalls]_vars

C9_Witness ==
    /\ payResult.job \in JobIds
    /\ ~payResult.qa_passed
    /\ payResult.message = "held"
    /\ jobs[payResult.job].contract_address \in Addrs
    /\ escrows[jobs[payResult.job].contract_address] = "active"

CreateEscrowCall(j, io) ==
    /\ jobs[j].status # "absent"
    /\ Len(createCalls) < MaxCreateCalls
    /\ nextAddr \in Addrs
    /\ LET cr == PaymentCreateEscrow(escrows, nextAddr, io)
       IN /\ escrows' = cr.escrows
          /\ nextAddr' = IF cr.success THEN nextAddr + 1 ELSE nextAddr
          /\ createCalls' = Append(createCalls,
                                   [job |-> j, success |-> cr.success,
                                    contract_address |-> cr.contract_address])
    /\ UNCHANGED <<jobs, visited, nextJob, releaseTx, ledgerReleaseCalls, call,
                   nSubmits, postResult, payResult, nPayCalls>>
    /\ UNCHANGED <<neg, config, qaRun, run, matchEvo, research, seen, request, extVars>>

\* The job life cycle together with direct create_escrow calls.
NextEscrow ==
    \/ Next
    \/ \E j \in JobIds, io \in {"ok", "error", "raise"} : CreateEscrowCall(j, io)

SpecEscrow == Init /\ [][NextEscrow]_vars

\* The escrows created for job j: the one process_job_posting stored on the
\* job and those the direct create_escrow calls returned.
EscrowsOf(j) ==
    (IF jobs[j].contract_address \in Addrs THEN {jobs[j].contract_address} ELSE {})
    \cup {createCalls[i].contract_address :
            i \in {k \in 1..Len(createCalls) :
                     createCalls[k].job = j /\ createCalls[k].success}}

\* C11: creating the escrow again for a job that already has one returns the
\* existing escrow: a job never has two escrows on the ledger.
C11_CreateEscrowIdempotent ==
    \A j \in JobIds : Cardinality(EscrowsOf(j)) <= 1

\* ================================================================ negotiate
\* Rates are floats in the code. The model computes them exactly, as integer
\* multiples of 1/Scale: every round divides by 20 (0.7 and 0.3 of a half
\* gap are 7/20 and 3/20 of the gap), the final midpoint divides by 2.
Rates == 0..MaxRate
Rounds == 0..MaxRounds

RECURSIVE Pow20(_)
Pow20(k) == IF k = 0 THEN 1 ELSE 20 * Pow20(k - 1)

Scale == 2 * Pow20(MaxRounds)

Abs(x) == IF x < 0 THEN -x ELSE x

\* abs(current_offer - current_ask) / current_ask > 0.15, for a positive ask.
GapTooWide(offer, ask) == 20 * Abs(offer - ask) > 3 * ask

\* new_offer with the midpoint taken as offer + ask, the halving left out.
NewOffer_NoHalving(offer, ask) == offer + (14 * ask) \div 20

\* midpoint = (offer + ask) / 2; new_offer = offer + (midpoint - offer) * 0.7
NewOffer(offer, ask) == offer + (7 * (ask - offer)) \div 20

\* new_ask = ask - (ask - midpoint) * 0.3
NewAsk(offer, ask) == ask - (3 * (ask - offer)) \div 20

\* The loop condition of negotiate.
LoopContinues(offer, ask, rounds, limit) == GapTooWide(offer, ask) /\ rounds < limit

\* The easy agreement taken only for a rate inside the budget range.
EasyAgreement_InsideBudget(client_min, client_max, freelancer_rate) ==
    client_min <= freelancer_rate /\ freelancer_rate <= client_max

\* if freelancer_rate <= client_max: the easy agreement.
EasyAgreement(client_min, client_max, freelancer_rate) == freelancer_rate <= client_max

\* The arguments and locals of negotiate at the first test of the while
\* condition: current_offer = client_max, current_ask = freelancer_rate.
NegLocals(client_min, client_max, freelancer_rate, limit) ==
    [pc |-> "loop",
     client_min |-> client_min * Scale,
     client_max |-> client_max * Scale,
     freelancer_rate |-> freelancer_rate * Scale,
     negotiation_rounds |-> limit,
     current_offer |-> client_max * Scale,
     current_ask |-> freelancer_rate * Scale,
     rounds |-> 0, agreed_rate |-> NoRate, success |-> FALSE]

\* negotiate from its entry to the first test of the while condition; the
\* easy agreement (freelancer_rate <= client_max) returns at once.
NegotiateStart(client_min, client_max, freelancer_rate, limit) ==
    /\ neg.pc = "idle"
    /\ client_min <= client_max
    /\ neg' = IF EasyAgreement(client_min, client_max, freelancer_rate)
              THEN [NegLocals(client_min, client_max, freelancer_rate, limit) EXCEPT
                      !.pc = "returned",
                      !.current_offer = 0,
                      !.current_ask = 0,
                      !.agreed_rate = freelancer_rate * Scale,
                      !.success = TRUE]
              ELSE NegLocals(client_min, client_max, freelancer_rate, limit)
    /\ UNCHANGED <<lifecycleVars, extVars, createCalls, config, qaRun, run, matchEvo, research, seen, request>>

\* One pass through the body of the while loop.
NegotiateRound ==
    /\ neg.pc = "loop"
    /\ LoopContinues(neg.current_offer, neg.current_ask, neg.rounds, neg.negotiation_rounds)
    /\ neg' = [neg EXCEPT !.current_offer = NewOffer(neg.current_offer, neg.current_ask),
                          !.current_ask = NewAsk(neg.current_offer, neg.current_ask),
                          !.rounds = neg.rounds + 1]
    /\ UNCHANGED <<lifecycleVars, extVars, createCalls, config, qaRun, run, matchEvo, research, seen, request>>

\* The loop has ended: agreement at the midpoint if the gap is small enough,
\* no agreed rate otherwise.
NegotiateReturn ==
    /\ neg.pc = "loop"
    /\ ~LoopContinues(neg.current_offer, neg.current_ask, neg.rounds, neg.negotiation_rounds)
    /\ neg' = IF ~GapTooWide(neg.current_offer, neg.current_ask)
              THEN [neg EXCEPT !.pc = "returned",
                               !.agreed_rate = (neg.current_offer + neg.current_ask) \div 2,
                               !.success = TRUE]
              ELSE [neg EXCEPT !.pc = "returned", !.agreed_rate = NoRate, !.success = FALSE]
    /\ UNCHANGED <<lifecycleVars, extVars, createCalls, config, qaRun, run, matchEvo, research, seen, request>>

NextNegotiate ==
    \/ \E client_min \in Rates, client_max \in Rates, freelancer_rate \in Rates,
          limit \in Rounds :
          NegotiateStart(client_min, client_max, freelancer_rate, limit)
    \/ NegotiateRound
    \/ NegotiateReturn

SpecNegotiate == Init /\ [][NextNegotiate]_vars

\* C12: with an asking rate above the budget maximum, offer and current ask
\* stay inside [max, ask] with offer <= current ask throughout the loop, and
\* negotiate either succeeds with an agreed rate inside [max, ask] or fails
\* with no agreed rate after exactly the configured number of rounds.
C12_NegotiateBracket ==
    (neg.pc # "idle" /\ neg.freelancer_rate > neg.client_max) =>
        /\ neg.client_max <= neg.current_offer
        /\ neg.current_offer <= neg.current_ask
        /\ neg.current_ask <= neg.freelancer_rate
        /\ (neg.pc = "returned" /\ neg.success) =>
              /\ neg.agreed_rate >= neg.client_max
              /\ neg.agreed_rate <= neg.freelancer_rate
        /\ (neg.pc = "returned" /\ ~neg.success) =>
              /\ neg.agreed_rate = NoRate
              /\ neg.rounds = neg.negotiation_rounds

\* A negotiation that ran at least one round and then agreed.
C12_Witness ==
    /\ neg.pc = "returned"
    /\ neg.freelancer_rate > neg.client_max
    /\ neg.success
    /\ neg.rounds >= 1
    /\ neg.agreed_rate > neg.client_max
    /\ neg.agreed_rate < neg.freelancer_rate

\* C13: with an asking rate at or below the budget maximum (equal to it, or
\* even below the minimum) negotiate succeeds at once: agreed rate exactly
\* the asking rate, 0 rounds.
C13_EasyAgreement ==
    (neg.pc # "idle" /\ neg.freelancer_rate <= neg.client_max) =>
        /\ neg.pc = "returned"
        /\ neg.success
        /\ neg.agreed_rate = neg.freelancer_rate
        /\ neg.rounds = 0

\* An asking rate below the budget minimum was agreed at once.
C13_Witness ==
    /\ neg.pc = "returned"
    /\ neg.freelancer_rate < neg.client_min
    /\ neg.client_min < neg.client_max
    /\ neg.success
    /\ neg.agreed_rate = neg.freelancer_rate
    /\ neg.rounds = 0

\* ============================================================ agent config
\* The bounds both evolutions clamp to: 0.5 and 0.95.
ThresholdFloor == 50
ThresholdCeil == 95
Thresholds == ThresholdFloor..ThresholdCeil

\* The agents are built on an AgentConfig whose thresholds the deployment
\* chooses (tests/conftest.py builds one with 0.7 and 0.8); this happens
\* before any agent is called.
AgentsIdle ==
    /\ neg.pc = "idle"
    /\ qaRun.pc = "idle"
    /\ \A r \in Runs : run[r].pc = "idle"
    /\ matchEvo.pc = "idle"
    /\ matchRun.pc = "idle"
    /\ posting.job = None

NewAgentConfig(ct, qt) ==
    /\ AgentsIdle
    /\ config = DefaultConfig
    /\ config' = [confidence_threshold |-> ct, qa_similarity_threshold |-> qt]
    /\ UNCHANGED <<lifecycleVars, extVars, createCalls, neg, qaRun, run, matchEvo, research, seen, request>>

\* ====================================================== validate_deliverable
\* Cosine similarity of the two embeddings, in hundredths.
Sims == 0..100

\* The fields QAResult (models/base.py) declares, all required.
QAResultFields == {"job_id", "deliverable_hash", "similarity_score", "passed", "feedback"}

\* The keyword arguments validate_deliverable passes to QAResult(...), the
\* same five at each of its three construction sites.
QAResultKwargs == {"job_id", "deliverable_id", "similarity_score", "passed", "feedback"}

\* pydantic builds the model only if every required field is given; an
\* unknown keyword is ignored, a missing field raises ValidationError.
Constructs(kwargs) == QAResultFields \subseteq kwargs

\* passed = similarity >= self.config.qa_similarity_threshold
Passed(similarity, threshold) == similarity >= threshold

\* The locals of validate_deliverable when it is entered.
EnteredQA ==
    [pc |-> "entered", retrieved |-> FALSE, similarity |-> 0, threshold |-> 0,
     passed |-> FALSE, outcome |-> "none",
     result |-> [similarity_score |-> 0, passed |-> FALSE, feedback |-> "none"]]

\* validate_deliverable up to the answer of storage_manager.retrieve_file:
\* data, no data (success False or empty), or an exception.
ValidateFetch(fetch) ==
    /\ qaRun.pc = "idle"
    /\ qaRun' = CASE fetch = "data"   -> [EnteredQA EXCEPT !.pc = "comparing", !.retrieved = TRUE]
                  [] fetch = "nodata" -> [EnteredQA EXCEPT !.pc = "building"]
                  [] OTHER            -> [EnteredQA EXCEPT !.pc = "handling"]
    /\ UNCHANGED <<lifecycleVars, extVars, createCalls, neg, config, run, matchEvo, research, seen, request>>

\* The embeddings have come back; the similarity is compared with the
\* threshold the config holds now. ok = FALSE is an embedding call that raised.
ValidateCompare(similarity, ok) ==
    /\ qaRun.pc = "comparing"
    /\ qaRun' = IF ok
                THEN [qaRun EXCEPT !.pc = "building",
                                   !.similarity = similarity,
                                   !.threshold = config.qa_similarity_threshold,
                                   !.passed = Passed(similarity, config.qa_similarity_threshold)]
                ELSE [qaRun EXCEPT !.pc = "handling"]
    /\ UNCHANGED <<lifecycleVars, extVars, createCalls, neg, config, run, matchEvo, research, seen, request>>

\* result = QAResult(...) in the try block, for a retrieved artifact (with
\* the computed score) or a missing one (score 0, passed False); a
\* construction that raises goes to the except handler.
ValidateBuild ==
    /\ qaRun.pc = "building"
    /\ qaRun' = IF Constructs(QAResultKwargs)
                THEN [qaRun EXCEPT
                        !.pc = "done", !.outcome = "returned",
                        !.result = IF qaRun.retrieved
                                   THEN [similarity_score |-> qaRun.similarity,
                                         passed |-> qaRun.passed,
                                         feedback |-> "similarity"]
                                   ELSE [similarity_score |-> 0, passed |-> FALSE,
                                         feedback |-> "could_not_retrieve"]]
                ELSE [qaRun EXCEPT !.pc = "handling"]
    /\ UNCHANGED <<lifecycleVars, extVars, createCalls, neg, config, run, matchEvo, research, seen, request>>

\* The except handler: logs, then return QAResult(...) once more; that
\* construction is outside any try, so if it raises the call raises.
ValidateHandle ==
    /\ qaRun.pc = "handling"
    /\ qaRun' = IF Constructs(QAResultKwargs)
                THEN [qaRun EXCEPT !.pc = "done", !.outcome = "returned",
                                   !.result = [similarity_score |-> 0, passed |-> FALSE,
                                               feedback |-> "validation_failed"]]
                ELSE [qaRun EXCEPT !.pc = "done", !.outcome = "raised"]
    /\ UNCHANGED <<lifecycleVars, extVars, createCalls, neg, config, run, matchEvo, research, seen, request>>

NextQA ==
    \/ \E qt \in Thresholds : NewAgentConfig(DefaultConfig.confidence_threshold, qt)
    \/ \E fetch \in {"data", "nodata", "raise"} : ValidateFetch(fetch)
    \/ \E similarity \in Sims, ok \in BOOLEAN : ValidateCompare(similarity, ok)
    \/ ValidateBuild
    \/ ValidateHandle

SpecQA == Init /\ [][NextQA]_vars

\* C14: a validation that retrieved the artifact and computed a similarity
\* returns a result whose passed flag is true exactly when the similarity
\* is at least the threshold (equal passes).
C14_PassedIffAtLeastThreshold ==
    (qaRun.pc = "done" /\ qaRun.retrieved /\ qaRun.threshold # 0) =>
        /\ qaRun.outcome = "returned"
        /\ qaRun.result.passed <=> (qaRun.similarity >= qaRun.threshold)

\* C15: validate_deliverable always returns a result and never raises; when
\* the artifact could not be fetched the result has passed false,
\* similarity 0 and a feedback string.
C15_AlwaysReturnsResult ==
    (qaRun.pc = "done") =>
        /\ qaRun.outcome = "returned"
        /\ ~qaRun.retrieved =>
              /\ ~qaRun.result.passed
              /\ qaRun.result.similarity_score = 0
              /\ qaRun.result.feedback # "none"

\* ================================================================ evolution
Min(a, b) == IF a < b THEN a ELSE b
Max(a, b) == IF a > b THEN a ELSE b

\* The thresholds a deployment starts from: the bounds, the defaults.
StartThresholds ==
    {ThresholdFloor, DefaultConfig.qa_similarity_threshold,
     DefaultConfig.confidence_threshold, ThresholdCeil}

\* QAAgent.evolve moving the threshold by 0.05 without min/max.
QANewThreshold_Unclamped(old, fp, fn) ==
    IF fp > fn /\ fp > 5 THEN old + 5
    ELSE IF fn > fp /\ fn > 5 THEN old - 5
    ELSE old

\* QAAgent.evolve: more than 5 false positives (and more than the false
\* negatives) raise the threshold by 0.05 up to 0.95; the reverse lowers it
\* by 0.05 down to 0.5.
QANewThreshold(old, fp, fn) ==
    IF fp > fn /\ fp > 5 THEN Min(ThresholdCeil, old + 5)
    ELSE IF fn > fp /\ fn > 5 THEN Max(ThresholdFloor, old - 5)
    ELSE old

\* The fewest events with which QAAgent.evolve can move the threshold
\* (false_positives > 5 or false_negatives > 5).
QAMinSamples == 6

\* What QAAgent.evolve decides and returns for n events of which fp are
\* false positives and fn false negatives.
QAEvolveDecision(old, n, fp, fn) ==
    IF n = 0
    THEN [new |-> old, evolved |-> FALSE, reason |-> "no_data"]
    ELSE LET new == QANewThreshold(old, fp, fn)
         IN IF new # old
            THEN [new |-> new, evolved |-> TRUE, reason |-> "adjusted"]
            ELSE [new |-> old, evolved |-> FALSE, reason |-> "no_evolution_needed"]

\* evolve_agents entered, from the scheduler thread (run_scheduled_tasks) or
\* from POST /admin/evolve (trigger_evolution). Nothing looks at a run
\* already in progress from the other source.
TriggerEvolution(r) ==
    /\ run[r].pc \in {"idle", "done"}
    /\ run' = [run EXCEPT ![r] = [pc |-> "started"]]
    /\ UNCHANGED <<lifecycleVars, extVars, createCalls, neg, config, qaRun, matchEvo, research, seen, request>>

\* evolve_agents from the start log through matching_agent.evolve() and
\* negotiation_agent.evolve(): both are BaseAgent.evolve, which changes
\* nothing; then QAAgent.evolve up to its get_events await.
EvolveBaseAgents(r) ==
    /\ run[r].pc = "started"
    /\ run' = [run EXCEPT ![r].pc = "qa_events"]
    /\ UNCHANGED <<lifecycleVars, extVars, createCalls, neg, config, qaRun, matchEvo, research, seen, request>>

\* QAAgent.evolve from the events to the threshold write (no await between
\* reading the old threshold and writing the new one).
QAEvolveDecide(r, n, fp, fn) ==
    /\ run[r].pc = "qa_events"
    /\ fp + fn <= n
    /\ LET d == QAEvolveDecision(config.qa_similarity_threshold, n, fp, fn)
       IN /\ config' = [config EXCEPT !.qa_similarity_threshold = d.new]
          /\ run' = [run EXCEPT ![r] = [pc |-> IF d.evolved THEN "qa_log" ELSE "completing",
                                         samples |-> n,
                                         evolved |-> d.evolved,
                                         reason |-> d.reason]]
    /\ UNCHANGED <<lifecycleVars, extVars, createCalls, neg, qaRun, matchEvo, research, seen, request>>

\* QAAgent.evolve after its agent_evolution log_event await.
QAEvolveLogged(r) ==
    /\ run[r].pc = "qa_log"
    /\ run' = [run EXCEPT ![r].pc = "completing"]
    /\ UNCHANGED <<lifecycleVars, extVars, createCalls, neg, config, qaRun, matchEvo, research, seen, request>>

\* evolve_agents after payment_agent.evolve() and the completion log:
\* returns the collected results.
FinishEvolution(r) ==
    /\ run[r].pc = "completing"
    /\ run' = [run EXCEPT ![r] = [pc |-> "done"]]
    /\ UNCHANGED <<lifecycleVars, extVars, createCalls, neg, config, qaRun, matchEvo, research, seen, request>>

\* success_rate < 0.6 and success_rate > 0.8 for succ successes out of n.
TooManyFailures(n, succ) == 10 * succ < 6 * n
TooConservative(n, succ) == 10 * succ > 8 * n

\* research.py evolve_threshold: "+= 0.05" or "-= 0.02", stored unclamped.
ResearchNewThreshold(old, n, succ) ==
    IF TooManyFailures(n, succ) THEN old + 5
    ELSE IF TooConservative(n, succ) THEN old - 2
    ELSE old

\* evolve_threshold with the band's ends outside it: a rate of exactly 0.6
\* raises, a rate of exactly 0.8 lowers.
MatchNewThreshold_OpenBand(old, n, succ) ==
    IF 10 * succ <= 6 * n THEN Min(ThresholdCeil, old + 5)
    ELSE IF 10 * succ >= 8 * n THEN Max(ThresholdFloor, old - 2)
    ELSE old

\* MatchingAgent.evolve_threshold: the value it writes before its await.
MatchNewThreshold(old, n, succ) ==
    IF TooManyFailures(n, succ) THEN Min(ThresholdCeil, old + 5)
    ELSE IF TooConservative(n, succ) THEN Max(ThresholdFloor, old - 2)
    ELSE old

\* "Keep within bounds": max(0.5, min(0.95, threshold)).
Clamp(t) == Max(ThresholdFloor, Min(ThresholdCeil, t))

\* MatchingAgent.evolve_threshold(recent_outcomes) up to its log_event
\* await; an empty list returns at once, with nothing logged or returned.
MatchEvolveSteps(n, succ) ==
    /\ matchEvo.pc \in {"idle", "done"}
    /\ succ <= n
    /\ IF n = 0
       THEN /\ matchEvo' = [pc |-> "done", outcomes |-> 0,
                            changed |-> FALSE, reported |-> FALSE]
            /\ UNCHANGED config
       ELSE LET new == MatchNewThreshold(config.confidence_threshold, n, succ)
            IN /\ config' = [config EXCEPT !.confidence_threshold = new]
               /\ matchEvo' = [pc |-> "logging", outcomes |-> n,
                               changed |-> (new # config.confidence_threshold),
                               reported |-> FALSE]
    /\ UNCHANGED <<lifecycleVars, createCalls, neg, qaRun, run, research, seen, request>>

MatchEvolveCall(n, succ) ==
    /\ MatchEvolveSteps(n, succ)
    /\ UNCHANGED extVars

\* evolve_threshold after the agent_evolution event (old and new threshold,
\* success rate, outcomes count) was logged: the final clamp.
MatchEvolveFinish ==
    /\ matchEvo.pc = "logging"
    /\ config' = [config EXCEPT !.confidence_threshold = Clamp(@)]
    /\ matchEvo' = [matchEvo EXCEPT !.pc = "done", !.reported = TRUE]
    /\ UNCHANGED <<lifecycleVars, extVars, createCalls, neg, qaRun, run, research, seen, request>>

\* Evolution runs one after the other (started by the admin route), with
\* evolve_threshold calls in between.
NextEvolve ==
    \/ \E ct \in StartThresholds, qt \in StartThresholds : NewAgentConfig(ct, qt)
    \/ TriggerEvolution("manual")
    \/ EvolveBaseAgents("manual")
    \/ \E n \in 0..MaxEvents : \E fp \in 0..n : \E fn \in 0..(n - fp) :
          QAEvolveDecide("manual", n, fp, fn)
    \/ QAEvolveLogged("manual")
    \/ FinishEvolution("manual")
    \/ \E n \in 0..MaxOutcomes : \E succ \in 0..n : MatchEvolveCall(n, succ)
    \/ MatchEvolveFinish

SpecEvolve == Init /\ [][NextEvolve]_vars

\* C16: started inside [0.5, 0.95], the matching confidence threshold and
\* the validation similarity threshold stay inside [0.5, 0.95] whatever
\* evolution runs over whatever outcome histories.
C16_ThresholdsInBounds ==
    /\ config.confidence_threshold \in Thresholds
    /\ config.qa_similarity_threshold \in Thresholds

\* Both thresholds were moved by evolution and sit on a bound, one on the
\* ceiling and one on the floor, with no call in progress.
C16_Witness ==
    /\ config.confidence_threshold = ThresholdCeil
    /\ config.qa_similarity_threshold = ThresholdFloor
    /\ matchEvo.pc = "done" /\ matchEvo.changed
    /\ \E r \in Runs : run[r].pc = "completing" /\ run[r].evolved

\* The fewest outcomes with which evolve_threshold goes on to evaluate
\* them ("if not recent_outcomes: return").
MatchMinSamples == 1

\* C17: an evolution run given fewer outcomes than the stage's minimum
\* sample count leaves that stage's threshold unchanged and reports the
\* reason for making no change.
C17_TooFewSamplesNoChange ==
    /\ \A r \in Runs :
          (run[r].pc = "completing" /\ run[r].samples < QAMinSamples) =>
              ~run[r].evolved /\ run[r].reason \in {"no_data", "no_evolution_needed"}
    /\ (matchEvo.pc = "done" /\ matchEvo.outcomes < MatchMinSamples) =>
          ~matchEvo.changed /\ matchEvo.reported

\* ------------------------------------------------- overlapping evolve_agents
\* The scheduler thread and the admin route both start evolve_agents on the
\* same orchestrator.
NextTriggers ==
    \/ \E r \in Runs : TriggerEvolution(r)
    \/ \E r \in Runs : EvolveBaseAgents(r)
    \/ \E r \in Runs : \E n \in 0..MaxEvents : \E fp \in 0..n : \E fn \in 0..(n - fp) :
          QAEvolveDecide(r, n, fp, fn)
    \/ \E r \in Runs : QAEvolveLogged(r)
    \/ \E r \in Runs : FinishEvolution(r)

SpecTriggers == Init /\ [][NextTriggers]_vars

\* The evolve_agents runs that have started and not yet returned.
RunsInProgress == {r \in Runs : run[r].pc \notin {"idle", "done"}}

\* C18: at most one evolve_agents run is in progress at any time; a trigger
\* arriving during a run never runs in parallel with it.
C18_SingleEvolutionRun == Cardinality(RunsInProgress) <= 1

\* ============================================ research.py: threshold reads
\* research.py evolves on a scheduler thread (start_background_scheduler)
\* while requests call find_matches on the server thread; the threads can
\* switch between any two statements.

\* evolve_threshold's first statement group: "+= 0.05" or "-= 0.02" stored
\* into the config as it is, the clamp being a later statement.
ResearchEvolveAdjust(n, succ) ==
    /\ research.pc = "idle"
    /\ n >= 1
    /\ succ <= n
    /\ research' = [confidence_threshold |->
                        ResearchNewThreshold(research.confidence_threshold, n, succ),
                    pc |-> "adjusted",
                    old |-> research.confidence_threshold]
    /\ UNCHANGED <<lifecycleVars, extVars, createCalls, neg, config, qaRun, run, matchEvo, seen, request>>

\* "Keep within bounds": the second store, max(0.5, min(0.95, threshold)).
ResearchEvolveClamp ==
    /\ research.pc = "adjusted"
    /\ research' = [confidence_threshold |-> Clamp(research.confidence_threshold),
                    pc |-> "idle"]
    /\ UNCHANGED <<lifecycleVars, extVars, createCalls, neg, config, qaRun, run, matchEvo, seen, request>>

\* find_matches comparing a score with self.config.confidence_threshold,
\* on the request thread. Recorded with the value from before the run in
\* progress (if any) and the value that run ends with.
ResearchFindMatchesRead ==
    /\ seen' = [value |-> research.confidence_threshold,
                old |-> IF research.pc = "adjusted" THEN research.old
                        ELSE research.confidence_threshold,
                final |-> Clamp(research.confidence_threshold),
                during |-> (research.pc = "adjusted")]
    /\ UNCHANGED <<lifecycleVars, extVars, createCalls, neg, config, qaRun, run, matchEvo, research, request>>

NextReads ==
    \/ \E n \in 0..MaxOutcomes : \E succ \in 0..n : ResearchEvolveAdjust(n, succ)
    \/ ResearchEvolveClamp
    \/ ResearchFindMatchesRead

SpecReads == Init /\ [][NextReads]_vars

\* C19: a call that reads a threshold while an evolution run is in progress
\* sees the value from before the run or the final value the run writes,
\* never an intermediate one.
C19_ReadsOldOrFinal ==
    seen.during => seen.value \in {seen.old, seen.final}

\* ================================================================ submitJob
\* A validator that also refuses budget_max = budget_min.
ValidBudget_Strict(budget_min, budget_max) == budget_max > budget_min

\* JobPost.validate_budget: raises only if budget_max < budget_min.
ValidBudget(budget_min, budget_max) == ~(budget_max < budget_min)

\* POST /jobs: the body is parsed into a JobPost before create_job runs; a
\* body the validator refuses is answered with an error and create_job is
\* never entered.
CreateJobRequest(budget_min, budget_max) ==
    /\ request.outcome = "accepted" => nextJob = request.accepted + 1
    /\ ValidBudget(budget_min, budget_max) => request.accepted < MaxJobs
    /\ request' = IF ValidBudget(budget_min, budget_max)
                  THEN [budget_min |-> budget_min, budget_max |-> budget_max,
                        outcome |-> "accepted", accepted |-> request.accepted + 1]
                  ELSE [budget_min |-> budget_min, budget_max |-> budget_max,
                        outcome |-> "rejected", accepted |-> request.accepted]
    /\ UNCHANGED <<lifecycleVars, extVars, createCalls, neg, config, qaRun, run, matchEvo,
                   research, seen>>

\* create_job with the parsed JobPost: awaits process_job_posting.
HandleCreateJob(hasMatch, negSuccess, io) ==
    /\ request.outcome = "accepted"
    /\ nextJob = request.accepted
    /\ ProcessJobPosting(hasMatch, negSuccess, io)

NextSubmit ==
    \/ \E budget_min \in Rates, budget_max \in Rates : CreateJobRequest(budget_min, budget_max)
    \/ \E hasMatch \in BOOLEAN, negSuccess \in BOOLEAN, io \in {"ok", "error", "raise"} :
          HandleCreateJob(hasMatch, negSuccess, io)

SpecSubmit == Init /\ [][NextSubmit]_vars

\* C20: a job spec with budget maximum below its minimum is rejected before
\* any state change (no job record, no stage invoked); a spec with max >= min,
\* max = min included, is accepted, and job records come only from accepted
\* specs.
C20_InvalidBudgetRejected ==
    /\ [](request.outcome # "none" =>
            (request.outcome = "rejected" <=> request.budget_max < request.budget_min))
    /\ [](nextJob - 1 <= request.accepted)
    /\ [][(request' # request /\ request'.outcome = "rejected") =>
            UNCHANGED lifecycleVars]_vars

\* A spec with max < min was rejected after an earlier job had been
\* accepted and stored: the stored job is all there is.
C20_Witness ==
    /\ request.outcome = "rejected"
    /\ request.budget_max < request.budget_min
    /\ request.accepted = 1
    /\ nextJob = 2
    /\ jobs[1].status # "absent"

\* ---------------------------------------------------------------- cancelJob
\* The states with no funds at risk.  JobStatus declares CANCELLED; the
\* operation that sets it is described by the interface only.
Cancellable_AnyNonTerminal(status) ==
    status \in {"posted", "matched", "negotiating", "active", "in_qa"}

Cancellable(status) == status \in {"posted", "matched", "negotiating"}

\* cancelJob(jobId) on a stored job: checks the current state, then either
\* marks the job cancelled or fails with InvalidTransition.
CancelJob(j) ==
    /\ jobs[j].status # "absent"
    /\ IF Cancellable(jobs[j].status)
       THEN /\ jobs' = [jobs EXCEPT ![j].status = "cancelled"]
            /\ visited' = [visited EXCEPT ![j] = @ \cup {"cancelled"}]
            /\ cancel' = [outcome |-> "cancelled", job |-> j, from |-> jobs[j].status]
       ELSE /\ cancel' = [outcome |-> "InvalidTransition", job |-> j,
                          from |-> jobs[j].status]
            /\ UNCHANGED <<jobs, visited>>
    /\ UNCHANGED <<nextJob, escrows, releaseTx, nextAddr, ledgerReleaseCalls,
                   call, nSubmits, postResult, payResult, nPayCalls>>
    /\ UNCHANGED <<stageVars, matchRun, posting, ledgerResult, archive, context, evolveArgs>>

\* The job pipeline as the API drives it: postings, and submissions through
\* the route.
NextPipeline ==
    \/ \E hasMatch \in BOOLEAN, negSuccess \in BOOLEAN, io \in {"ok", "error", "raise"} :
          ProcessJobPosting(hasMatch, negSuccess, io)
    \/ \E p \in Calls, j \in JobIds : RouteSubmit(p, j)
    \/ \E p \in Calls, qa \in {"passed", "failed", "raise"} : ValidateAndUpdate(p, qa)
    \/ \E p \in Calls, io \in {"ok", "error"} : ReleaseStep(p, io)
    \/ \E p \in Calls : FinishSubmit(p)

SpecPipeline == Init /\ [][NextPipeline]_vars

\* The interface's operations on jobs: submitJob, submitArtifact (through the
\* route) and cancelJob.
NextCancel ==
    \/ NextPipeline
    \/ \E j \in JobIds : CancelJob(j)

SpecCancel == Init /\ [][NextCancel]_vars

\* C21: a job becomes cancelled only from posted, matched or negotiating; a
\* cancelJob on an active, in-QA or terminal job fails with InvalidTransition
\* and changes nothing of the jobs; a cancelled job never had an escrow.
C21_CancelOnlyBeforeFunding ==
    /\ [][\A j \in JobIds :
            (jobs'[j].status = "cancelled" /\ jobs[j].status # "cancelled")
               => jobs[j].status \in {"posted", "matched", "negotiating"}]_vars
    /\ [][(cancel' # cancel /\ cancel'.outcome = "InvalidTransition")
            => /\ cancel'.from \notin {"posted", "matched", "negotiating"}
               /\ UNCHANGED <<jobs, escrows, releaseTx>>]_vars
    /\ [](cancel.outcome = "cancelled" => cancel.from \in {"posted", "matched", "negotiating"})
    /\ [](\A j \in JobIds :
            jobs[j].status = "cancelled"
               => /\ jobs[j].contract_address = None
                  /\ visited[j] \cap {"active", "in_qa", "completed"} = {})

\* cancelJob was refused on an active job whose escrow holds the funds.
C21_Witness ==
    \E j \in JobIds :
        /\ cancel.outcome = "InvalidTransition"
        /\ cancel.job = j
        /\ cancel.from = "active"
        /\ jobs[j].status = "active"
        /\ jobs[j].contract_address \in Addrs
        /\ escrows[jobs[j].contract_address] = "active"

\* ============================================================ find_matches
MaxResults == 2     \* most embeddings the vector store holds

\* similarity_search(query=..., top_k=10)
TopK == 10

\* Cosine similarities the store's entries have with the job, in hundredths.
Scores == StartThresholds

FreelancerIds == {1}

\* An entry of the store as the search reports it: its score and the
\* freelancer_id of its metadata (None: the metadata names no freelancer,
\* as for a job's embedding).
SearchEntries == [score : Scores, freelancer_id : {None} \cup FreelancerIds]

\* The store's entries in insertion order, at most MaxResults of them.
Stores == UNION {[1..n -> SearchEntries] : n \in 0..MaxResults}

\* list.sort(key=score, reverse=True) is stable: e goes after every entry
\* whose score is at least its own.
InsertByScore(sorted, e) ==
    LET k == Cardinality({i \in DOMAIN sorted : sorted[i].score >= e.score})
    IN SubSeq(sorted, 1, k) \o <<e>> \o SubSeq(sorted, k + 1, Len(sorted))

RECURSIVE SortByScore(_)
SortByScore(s) ==
    IF s = <<>> THEN <<>>
    ELSE InsertByScore(SortByScore(SubSeq(s, 1, Len(s) - 1)), s[Len(s)])

\* similarity_search that returns the entries in the store's own order.
SimilaritySearch_Unsorted(stored, top_k) ==
    SubSeq(stored, 1, Min(top_k, Len(stored)))

\* LocalVectorManager.similarity_search: every entry scored, sorted by score
\* (highest first), the first top_k returned.
SimilaritySearch(stored, top_k) ==
    LET results == SortByScore(stored)
    IN SubSeq(results, 1, Min(top_k, Len(results)))

\* The threshold test with a score equal to the threshold dropped.
MeetsThreshold_Strict(score, threshold) == score > threshold

\* if score >= self.config.confidence_threshold
MeetsThreshold(score, threshold) == score >= threshold

\* The loop of find_matches over the search results from position i on: an
\* entry without freelancer_id is skipped, one that meets the threshold
\* becomes a JobMatch appended to job_matches.  "from" is the position of
\* the search result a JobMatch was built from (its job_id is a fresh uuid).
RECURSIVE JobMatches(_, _, _)
JobMatches(matches, threshold, i) ==
    IF i > Len(matches) THEN <<>>
    ELSE LET match == matches[i]
             rest == JobMatches(matches, threshold, i + 1)
         IN IF match.freelancer_id = None THEN rest
            ELSE IF MeetsThreshold(match.score, threshold)
            THEN <<[freelancer_id |-> match.freelancer_id,
                    confidence_score |-> match.score,
                    from |-> i]>> \o rest
            ELSE rest

\* find_matches up to the answer of similarity_search: the results, a dict
\* with "error" (the search caught its own exception), or an exception.
FindMatchesSearch(stored, io) ==
    /\ matchRun.pc = "idle"
    /\ matchRun' = IF io = "ok"
                   THEN [pc |-> "filtering", results |-> SimilaritySearch(stored, TopK)]
                   ELSE [pc |-> "returned", results |-> <<>>, job_matches |-> <<>>,
                         threshold |-> config.confidence_threshold, error |-> TRUE]
    /\ UNCHANGED <<lifecycleVars, stageVars, cancel, posting, ledgerResult, archive, context, evolveArgs>>

\* The filter loop (no await inside it), with the threshold the config
\* holds now, and the return of job_matches.
FindMatchesFilter ==
    /\ matchRun.pc = "filtering"
    /\ matchRun' = [pc |-> "returned", results |-> matchRun.results,
                    job_matches |-> JobMatches(matchRun.results,
                                               config.confidence_threshold, 1),
                    threshold |-> config.confidence_threshold, error |-> FALSE]
    /\ UNCHANGED <<lifecycleVars, stageVars, cancel, posting, ledgerResult, archive, context, evolveArgs>>

\* process_job_posting with the matches: none -> 'no_matches'; otherwise
\* best_match = matches[0].
SelectBestMatch ==
    /\ matchRun.pc = "returned"
    /\ matchRun' = IF matchRun.job_matches = <<>>
                   THEN [matchRun EXCEPT !.pc = "no_matches"]
                   ELSE [pc |-> "selected", results |-> matchRun.results,
                         job_matches |-> matchRun.job_matches,
                         threshold |-> matchRun.threshold, error |-> FALSE,
                         best_match |-> matchRun.job_matches[1]]
    /\ UNCHANGED <<lifecycleVars, stageVars, cancel, posting, ledgerResult, archive, context, evolveArgs>>

\* One find_matches call on agents built with a chosen threshold, with
\* evolve_threshold calls running while it awaits the search.
NextMatch ==
    \/ \E ct \in StartThresholds :
          NewAgentConfig(ct, DefaultConfig.qa_similarity_threshold)
    \/ \E stored \in Stores, io \in {"ok", "error", "raise"} : FindMatchesSearch(stored, io)
    \/ FindMatchesFilter
    \/ SelectBestMatch
    \/ matchRun.pc = "filtering" /\ \E n \in 0..1 : \E succ \in 0..n : MatchEvolveCall(n, succ)
    \/ matchRun.pc = "filtering" /\ MatchEvolveFinish

SpecMatch == Init /\ [][NextMatch]_vars

\* C22: a search result that names a freelancer is returned if and only if
\* its score is at least the threshold the config holds when the results are
\* filtered (equal included); what is returned are exactly such results, each
\* once, in the order the search ranked them.
C22_MatchesAreThoseAtLeastThreshold ==
    /\ [](matchRun.pc \in {"returned", "no_matches", "selected"} =>
            LET r == matchRun.results
                m == matchRun.job_matches
            IN /\ \A i \in DOMAIN r :
                     r[i].freelancer_id # None =>
                        ((\E k \in DOMAIN m : m[k].from = i)
                            <=> r[i].score >= matchRun.threshold)
               /\ \A k \in DOMAIN m :
                     /\ m[k].from \in DOMAIN r
                     /\ m[k].freelancer_id = r[m[k].from].freelancer_id
                     /\ m[k].freelancer_id # None
                     /\ m[k].confidence_score = r[m[k].from].score
               /\ \A k1 \in DOMAIN m, k2 \in DOMAIN m :
                     k1 < k2 => m[k1].from < m[k2].from)
    /\ [][(matchRun.pc = "filtering" /\ matchRun'.pc = "returned")
            => matchRun'.threshold = config.confidence_threshold]_vars

\* A call under a threshold other than the default kept a result scoring
\* exactly the threshold and dropped a lower one.
C22_Witness ==
    /\ matchRun.pc = "returned"
    /\ ~matchRun.error
    /\ matchRun.threshold # DefaultConfig.confidence_threshold
    /\ Len(matchRun.results) = 2
    /\ Len(matchRun.job_matches) = 1
    /\ matchRun.job_matches[1].confidence_score = matchRun.threshold
    /\ \E i \in DOMAIN matchRun.results :
          /\ matchRun.results[i].freelancer_id # None
          /\ matchRun.results[i].score < matchRun.threshold

\* C25: the match the orchestrator selects (the first of the filtered list)
\* has the highest score of all the matches that passed the threshold.
C25_BestMatchHasHighestScore ==
    matchRun.pc = "selected" =>
        \A k \in DOMAIN matchRun.job_matches :
            matchRun.job_matches[k].confidence_score
                <= matchRun.best_match.confidence_score

\* Two results passed the threshold with different scores and the first was
\* selected.
C25_Witness ==
    /\ matchRun.pc = "selected"
    /\ Len(matchRun.job_matches) = 2
    /\ matchRun.job_matches[2].confidence_score < matchRun.best_match.confidence_score
    /\ matchRun.best_match = matchRun.job_matches[1]

\* C23: a posting that ends with 'no_matches' or 'negotiation_failed' returns
\* that status as its result, leaves the job posted with no counterparty and
\* no escrow reference, and never called create_escrow; the ledger holds
\* escrows only for postings that ended 'active'.
C23_NoMatchOrNoDealStaysPosted ==
    /\ \A j \in JobIds :
          postResult[j].status \in {"no_matches", "negotiation_failed"} =>
             /\ jobs[j].status = "posted"
             /\ visited[j] = {"posted"}
             /\ jobs[j].freelancer_id = None
             /\ jobs[j].contract_address = None
             /\ jobs[j].escrow_id = None
             /\ postResult[j].escrow = "none"
    /\ Cardinality({a \in Addrs : escrows[a] # "absent"})
          = Cardinality({j \in JobIds : postResult[j].status = "active"})

\* A job whose negotiation failed is stored, posted.
C23_Witness ==
    \E j \in JobIds :
        /\ postResult[j].status = "negotiation_failed"
        /\ jobs[j].status = "posted"
        /\ request.accepted = j

\* ================================= process_job_posting on the real agents
\* What MatchingAgent.find_matches returns: a list of JobMatch objects.
FindMatchesReturns == "JobMatch"

\* best_match["freelancer_id"]: a dict can be subscripted, a pydantic
\* BaseModel such as JobMatch cannot (TypeError).
Subscriptable(type) == type = "dict"

\* process_job_posting when a statement of its try block raises: the except
\* handler logs and returns status 'error'; the job stays as it was stored.
PostingError ==
    /\ nextJob <= MaxJobs
    /\ nextJob' = nextJob + 1
    /\ jobs' = [jobs EXCEPT ![nextJob] = [AbsentJob EXCEPT !.status = "posted"]]
    /\ visited' = [visited EXCEPT ![nextJob] = {"posted"}]
    /\ postResult' = [postResult EXCEPT ![nextJob] = [status |-> "error", escrow |-> "none"]]
    /\ UNCHANGED <<escrows, releaseTx, nextAddr, ledgerReleaseCalls, call, nSubmits,
                   payResult, nPayCalls>>

\* process_job_posting with its matching agent: the matches are what
\* find_matches makes of the store; negSuccess and io are what negotiate and
\* the ledger answer if they are asked.
ProcessJobPostingWithAgent(stored, negSuccess, io) ==
    LET matches == JobMatches(SimilaritySearch(stored, TopK),
                              config.confidence_threshold, 1)
    IN /\ posting' = [job |-> nextJob, matches |-> matches,
                      negSuccess |-> negSuccess, io |-> io]
       /\ IF matches = <<>>
          THEN PostingSteps(FALSE, negSuccess, io)
          ELSE IF Subscriptable(FindMatchesReturns)
          THEN PostingSteps(TRUE, negSuccess, io)
          ELSE PostingError
       /\ UNCHANGED <<stageVars, cancel, matchRun, ledgerResult, archive, context, evolveArgs>>

NextPosting ==
    \/ \E ct \in StartThresholds :
          NewAgentConfig(ct, DefaultConfig.qa_similarity_threshold)
    \/ \E stored \in Stores, negSuccess \in BOOLEAN, io \in {"ok", "error", "raise"} :
          ProcessJobPostingWithAgent(stored, negSuccess, io)

SpecPosting == Init /\ [][NextPosting]_vars

\* C24: when matching yields at least one candidate meeting the threshold,
\* negotiation succeeds and escrow creation succeeds, process_job_posting
\* returns status 'active' and the stored job is active with the counterparty
\* and the escrow reference recorded (the agreed rate is written by the same
\* update); every active job has them.
C24_ActiveWithCounterpartyAndEscrow ==
    /\ \A j \in JobIds :
          (posting.job = j /\ Len(posting.matches) >= 1 /\ posting.negSuccess
              /\ posting.io = "ok")
             => /\ postResult[j].status = "active"
                /\ jobs[j].status = "active"
    /\ \A j \in JobIds :
          jobs[j].status = "active"
             => /\ jobs[j].freelancer_id # None
                /\ jobs[j].contract_address \in Addrs
                /\ escrows[jobs[j].contract_address] # "absent"

\* ============================================ the local ledger on its own
\* LocalBlockchainManager.create_escrow called directly.
LedgerCreateCall(io) ==
    /\ nextAddr \in Addrs
    /\ LET cr == LedgerCreateEscrow(escrows, nextAddr, io)
       IN /\ escrows' = cr.escrows
          /\ nextAddr' = IF cr.success THEN nextAddr + 1 ELSE nextAddr
          /\ ledgerResult' = [op |-> "create_escrow", escrow_id |-> cr.contract_address,
                              success |-> cr.success, was |-> "absent"]
    /\ UNCHANGED <<jobs, visited, nextJob, releaseTx, ledgerReleaseCalls, call,
                   nSubmits, postResult, payResult, nPayCalls>>
    /\ UNCHANGED <<stageVars, cancel, matchRun, posting, archive, context, evolveArgs>>

\* LocalBlockchainManager.release_payment called directly, with the id of an
\* escrow or an id the ledger never issued (None).  It has no await: the
\* load, the checks and the two saves are one step.
LedgerReleaseCall(escrow_id, io) ==
    /\ LET rr == LedgerReleasePayment(escrows, releaseTx, escrow_id, io)
       IN /\ escrows' = rr.escrows
          /\ releaseTx' = rr.releaseTx
          /\ ledgerResult' = [op |-> "release_payment", escrow_id |-> escrow_id,
                              success |-> rr.success,
                              was |-> IF escrow_id \in Addrs THEN escrows[escrow_id]
                                      ELSE "absent"]
    /\ UNCHANGED <<jobs, visited, nextJob, nextAddr, ledgerReleaseCalls, call,
                   nSubmits, postResult, payResult, nPayCalls>>
    /\ UNCHANGED <<stageVars, cancel, matchRun, posting, archive, context, evolveArgs>>

\* Any sequence of calls on the ledger: directly, and through the payment
\* agent (postings that create an escrow, release_payment calls).
NextLedger ==
    \/ \E io \in {"ok", "error"} : LedgerCreateCall(io)
    \/ \E escrow_id \in Addrs \cup {None}, io \in {"ok", "error"} :
          LedgerReleaseCall(escrow_id, io)
    \/ \E hasMatch \in BOOLEAN, negSuccess \in BOOLEAN, io \in {"ok", "error", "raise"} :
          ProcessJobPosting(hasMatch, negSuccess, io)
    \/ \E j \in JobIds, qa_passed \in BOOLEAN, io \in {"ok", "error"} :
          ReleasePaymentCall(j, qa_passed, io)

SpecLedger == Init /\ [][NextLedger]_vars

\* C26: release_payment succeeds only on an existing escrow whose status is
\* 'active', which it sets to 'released'; on an unknown or already released
\* escrow it returns success = false and changes neither escrows nor
\* transactions; so each escrow has at most one release_payment transaction.
C26_LedgerReleaseAtMostOnce ==
    /\ [](\A a \in Addrs :
            /\ releaseTx[a] <= 1
            /\ releaseTx[a] = 1 => escrows[a] = "released")
    /\ [](ledgerResult.op = "release_payment" =>
            (ledgerResult.success => ledgerResult.was = "active"))
    /\ [][(ledgerResult'.op = "release_payment" /\ ledgerResult' # ledgerResult)
            => IF ledgerResult'.success
               THEN /\ escrows[ledgerResult'.escrow_id] = "active"
                    /\ escrows'[ledgerResult'.escrow_id] = "released"
                    /\ releaseTx'[ledgerResult'.escrow_id]
                          = releaseTx[ledgerResult'.escrow_id] + 1
               ELSE ledgerResult'.was # "active"
                       => UNCHANGED <<escrows, releaseTx>>]_vars

\* A second release_payment on an escrow already released was refused; the
\* escrow still has its one transaction.
C26_Witness ==
    /\ ledgerResult.op = "release_payment"
    /\ ~ledgerResult.success
    /\ ledgerResult.was = "released"
    /\ ledgerResult.escrow_id \in Addrs
    /\ releaseTx[ledgerResult.escrow_id] = 1
    /\ escrows[ledgerResult.escrow_id] = "released"

\* ============================================ the archived LocalBlockchain
MaxContracts == 2       \* contracts ever created
MaxTransactions == 6    \* entries the transactions list may reach

ContractIds == 1..MaxContracts

\* create_job: a contract under a fresh uuid, status 'created', and a
\* 'create_job' transaction.
LocalBlockchainCreateJob ==
    /\ Len(archive.contracts) < MaxContracts
    /\ Len(archive.transactions) < MaxTransactions
    /\ LET contract_id == Len(archive.contracts) + 1
       IN archive' = [contracts |-> Append(archive.contracts, "created"),
                      transactions |-> Append(archive.transactions,
                                              [type |-> "create_job",
                                               contract_id |-> contract_id]),
                      result |-> "contract_id"]
    /\ UNCHANGED <<lifecycleVars, stageVars, cancel, matchRun, posting, ledgerResult, context, evolveArgs>>

\* complete_job: False for an unknown contract; otherwise the status becomes
\* 'completed', whatever it was, and a 'complete_job' transaction is added.
LocalBlockchainCompleteJob(contract_id) ==
    /\ Len(archive.transactions) < MaxTransactions
    /\ archive' = IF contract_id \notin DOMAIN archive.contracts
                  THEN [archive EXCEPT !.result = "False"]
                  ELSE [contracts |-> [archive.contracts EXCEPT ![contract_id] = "completed"],
                        transactions |-> Append(archive.transactions,
                                                [type |-> "complete_job",
                                                 contract_id |-> contract_id]),
                        result |-> "True"]
    /\ UNCHANGED <<lifecycleVars, stageVars, cancel, matchRun, posting, ledgerResult, context, evolveArgs>>

\* release_payment: False for an unknown contract or a status other than
\* 'completed'; otherwise the status becomes 'paid' and a 'release_payment'
\* transaction is added.
LocalBlockchainReleasePayment(contract_id) ==
    /\ Len(archive.transactions) < MaxTransactions
    /\ archive' = IF contract_id \notin DOMAIN archive.contracts
                  THEN [archive EXCEPT !.result = "False"]
                  ELSE IF archive.contracts[contract_id] # "completed"
                  THEN [archive EXCEPT !.result = "False"]
                  ELSE [contracts |-> [archive.contracts EXCEPT ![contract_id] = "paid"],
                        transactions |-> Append(archive.transactions,
                                                [type |-> "release_payment",
                                                 contract_id |-> contract_id]),
                        result |-> "True"]
    /\ UNCHANGED <<lifecycleVars, stageVars, cancel, matchRun, posting, ledgerResult, context, evolveArgs>>

NextArchive ==
    \/ LocalBlockchainCreateJob
    \/ \E contract_id \in ContractIds : LocalBlockchainCompleteJob(contract_id)
    \/ \E contract_id \in ContractIds : LocalBlockchainReleasePayment(contract_id)

SpecArchive == Init /\ [][NextArchive]_vars

\* The positions of the transactions of one type for one contract.
TransactionsOf(type, contract_id) ==
    {i \in DOMAIN archive.transactions :
        /\ archive.transactions[i].type = type
        /\ archive.transactions[i].contract_id = contract_id}

\* C27: over any sequence of create_job, complete_job and release_payment
\* calls, each contract has at most one 'release_payment' transaction, it
\* comes only after a 'complete_job' of that contract, and a contract in
\* status 'paid' stays 'paid'.
C27_ArchiveReleasedAtMostOnce ==
    /\ [](\A c \in DOMAIN archive.contracts :
            /\ Cardinality(TransactionsOf("release_payment", c)) <= 1
            /\ \A i \in TransactionsOf("release_payment", c) :
                  \E k \in TransactionsOf("complete_job", c) : k < i)
    /\ [][\A c \in DOMAIN archive.contracts :
            archive.contracts[c] = "paid" => archive'.contracts[c] = "paid"]_vars

\* ======================================== what submit_deliverable reports
\* "payment_released": qa_result.passed in the dict submit_deliverable
\* returns; qa is the validation outcome of the call.
PaymentReleasedReported(qa) == qa = "passed"

\* C28: a submit_deliverable call reports payment_released = true, and the
\* job carries a payment transaction reference, only if the ledger release
\* for the job's escrow succeeded.
C28_ReportedReleasedOnlyIfReleased ==
    /\ \A p \in Calls :
          (call[p].pc = "done" /\ call[p].result = "returned"
              /\ PaymentReleasedReported(call[p].qa))
             => call[p].pay = "tx"
    /\ \A j \in JobIds :
          jobs[j].payment_tx = "tx"
             => /\ jobs[j].contract_address \in Addrs
                /\ escrows[jobs[j].contract_address] = "released"

\* ======================================================= evolve_threshold
\* evolve_threshold(recent_outcomes) with its arguments kept: n outcomes, succ
\* of them successful, and the threshold the call found.
EvolveThreshold(n, succ) ==
    /\ MatchEvolveSteps(n, succ)
    /\ evolveArgs' = [outcomes |-> n, successes |-> succ,
                      old |-> config.confidence_threshold]
    /\ UNCHANGED <<cancel, matchRun, posting, ledgerResult, archive, context>>

\* evolve_threshold calls, one after the other, on agents built with any
\* threshold of the range.
NextThreshold ==
    \/ \E ct \in Thresholds : NewAgentConfig(ct, DefaultConfig.qa_similarity_threshold)
    \/ \E n \in 0..MaxOutcomes : \E succ \in 0..n : EvolveThreshold(n, succ)
    \/ MatchEvolveFinish

SpecThreshold == Init /\ [][NextThreshold]_vars

\* C29: for a non-empty list of outcomes, evolve_threshold raises the
\* threshold by 0.05 (capped at 0.95) when the success rate is below 0.6,
\* lowers it by 0.02 (floored at 0.5) when the rate is above 0.8, and leaves
\* it unchanged when the rate is in [0.6, 0.8].
C29_EvolveThresholdSteps ==
    (matchEvo.pc = "done" /\ evolveArgs.outcomes # None /\ evolveArgs.outcomes >= 1) =>
        LET n == evolveArgs.outcomes
            succ == evolveArgs.successes
            old == evolveArgs.old
            new == config.confidence_threshold
        IN /\ 10 * succ < 6 * n => new = (IF old + 5 > 95 THEN 95 ELSE old + 5)
           /\ 10 * succ > 8 * n => new = (IF old - 2 < 50 THEN 50 ELSE old - 2)
           /\ (10 * succ >= 6 * n /\ 10 * succ <= 8 * n) => new = old

\* A call whose success rate was exactly 0.6 (3 of 5) left the threshold as
\* it was.
C29_Witness ==
    /\ matchEvo.pc = "done"
    /\ evolveArgs.outcomes = 5
    /\ evolveArgs.successes = 3
    /\ config.confidence_threshold = evolveArgs.old

\* ======================================= AutoTradeX AgentContext.add_message
MaxMessages == 4    \* add_message calls on one context
MaxLimit == 2       \* largest max_messages a context is built with
MaxStamp == 2       \* latest timestamp a message carries

MessageRoles == {"system", "user", "assistant"}

\* sort(key=timestamp) is stable: m goes after every message whose timestamp
\* is at most its own.
InsertByTimestamp(sorted, m) ==
    LET k == Cardinality({i \in DOMAIN sorted : sorted[i].timestamp <= m.timestamp})
    IN SubSeq(sorted, 1, k) \o <<m>> \o SubSeq(sorted, k + 1, Len(sorted))

RECURSIVE SortByTimestamp(_)
SortByTimestamp(s) ==
    IF s = <<>> THEN <<>>
    ELSE InsertByTimestamp(SortByTimestamp(SubSeq(s, 1, Len(s) - 1)), s[Len(s)])

\* The Python slice s[-k:]: the last k elements for k > 0 (all of s when
\* k >= len(s)); s[-0:] is s[0:], the whole list; for k < 0 it is s[|k|:].
SliceFromMinus(s, k) ==
    LET start == IF k > 0 THEN Max(Len(s) - k, 0) ELSE Min(0 - k, Len(s))
    IN SubSeq(s, start + 1, Len(s))

IsSystem(m) == m.role = "system"
IsOther(m) == m.role # "system"

\* The messages list after add_message(message): appended, then trimmed
\* when it is longer than max_messages.
AddMessage(messages, message, max_messages) ==
    LET appended == Append(messages, message)
    IN IF Len(appended) > max_messages
       THEN LET system_messages == SelectSeq(appended, IsSystem)
                other_messages == SortByTimestamp(SelectSeq(appended, IsOther))
                keep_messages == SliceFromMinus(other_messages,
                                                max_messages - Len(system_messages))
            IN system_messages \o keep_messages
       ELSE appended

\* AgentContext(agent_id, agent_type, max_messages=...): an empty context.
NewAgentContext(max_messages) ==
    /\ ~context.built
    /\ context' = [built |-> TRUE, max_messages |-> max_messages,
                   messages |-> <<>>, added |-> <<>>]
    /\ UNCHANGED <<lifecycleVars, stageVars, cancel, matchRun, posting, ledgerResult,
                   archive, evolveArgs>>

\* add_message(message): the message has a fresh id (its position among the
\* messages ever added), a role and a timestamp.
ContextAddMessage(role, timestamp) ==
    /\ context.built
    /\ Len(context.added) < MaxMessages
    /\ LET message == [id |-> Len(context.added) + 1, role |-> role,
                       timestamp |-> timestamp]
       IN context' = [context EXCEPT
                        !.messages = AddMessage(context.messages, message,
                                                context.max_messages),
                        !.added = Append(context.added, message)]
    /\ UNCHANGED <<lifecycleVars, stageVars, cancel, matchRun, posting, ledgerResult,
                   archive, evolveArgs>>

NextContext ==
    \/ \E max_messages \in 1..MaxLimit : NewAgentContext(max_messages)
    \/ \E role \in MessageRoles, timestamp \in 1..MaxStamp :
          ContextAddMessage(role, timestamp)

SpecContext == Init /\ [][NextContext]_vars

\* The messages of a sequence, as a set.
Range(s) == {s[i] : i \in DOMAIN s}

\* C30: after every add_message, whatever max_messages and the roles, the
\* context holds at most max_messages messages, every system message ever
\* added is retained, and the retained non-system messages are the newest:
\* none that was dropped is newer than one that was kept.  Stated for the
\* contexts where all three can hold together: those given no more system
\* messages than max_messages.
C30_ContextTrimmed ==
    (/\ context.built
     /\ Cardinality({m \in Range(context.added) : IsSystem(m)}) <= context.max_messages) =>
        LET kept == Range(context.messages)
            dropped == Range(context.added) \ kept
        IN /\ Len(context.messages) <= context.max_messages
           /\ \A m \in Range(context.added) : IsSystem(m) => m \in kept
           /\ \A d \in dropped, k \in kept :
                 (IsOther(d) /\ IsOther(k)) => d.timestamp <= k.timestamp

====
